---- MODULE Spec2Model ----
(***************************************************************************)
(* Model of the LLM availability subsystem of tender (@tender/agent):      *)
(*   - availability-checker.ts: parseRetryAfter, classifyResponse,         *)
(*     createErrorFromResponse, createErrorFromException,                  *)
(*     isAvailabilityError, checkAnthropicAvailability                     *)
(*   - llm-availability-machine.ts: the XState machine                     *)
(*     llmAvailabilityMachine (guards, actions, delays, states)            *)
(*                                                                         *)
(* Encoding of JavaScript values:                                          *)
(*   - `T | undefined` and `T | null` are sequences of length <= 1:        *)
(*     <<>> is undefined/null, <<v>> is the value v;                       *)
(*   - a header string is a sequence of one-character strings;             *)
(*   - NaN is <<>> in the result of parseInt / Date.parse.                 *)
(* One step of the model is one macrostep of the machine: an event is      *)
(* delivered, exit actions, transition actions, the eventless transitions  *)
(* of `initializing` and the entry actions (invoke, after) all run before  *)
(* the next event is looked at.                                            *)
(***************************************************************************)
EXTENDS Integers, Sequences, FiniteSets, TLC

VARIABLES
    state,       \* snapshot.value of the actor
    context,     \* snapshot.context (LlmAvailabilityContext)
    probes,      \* in-flight checkAvailability promise actors, oldest first
    timers,      \* delayed `after` events scheduled and not yet cancelled
    started,     \* history: probes the last step started
    downStreak,  \* history: consecutive service-down failures
    autoRetries, \* history: retries the serviceDown delay has triggered since
                 \* the last success, manual reset or reconfiguration
    landed,      \* history: failed probes that led to serviceDown since the
                 \* last success or manual reset
    lastEvent,   \* history: the event delivered in the last step, and the state
                 \* it was delivered in
    call,        \* last call of a pure function of availability-checker.ts
    manager,     \* an AvailabilityManager: its fields and its check() calls
                 \* that await the checker
    observed     \* history: what the last operation on the manager did, whether
                 \* dispose() has been called, whether every checker call failed

vars ==
    <<state, context, probes, timers, started, downStreak, autoRetries, landed,
      lastEvent, call, manager, observed>>

machineVars ==
    <<state, context, probes, timers, started, downStreak, autoRetries, landed,
      lastEvent>>

managerVars == <<manager, observed>>

-----------------------------------------------------------------------------
(* Bounds of the model *)

\* largest retryCount explored (CONFIGURE keeps retryCount, so it has no
\* bound of its own)
MaxRetryCount == 5

\* largest maxRetries among the configurations explored
MaxMaxRetries == 4

-----------------------------------------------------------------------------
(* JavaScript helpers *)

None == <<>>

Some(v) == <<v>>

\* a ?? b
Coalesce(a, b) == IF a = None THEN b ELSE a[1]

Min(a, b) == IF a <= b THEN a ELSE b

\* Math.ceil(a / b) for a >= 0, b > 0
CeilDiv(a, b) == (a + b - 1) \div b

Digits == {"0", "1", "2", "3", "4", "5", "6", "7", "8", "9"}

DigitValue(c) ==
    CASE c = "0" -> 0 [] c = "1" -> 1 [] c = "2" -> 2 [] c = "3" -> 3
      [] c = "4" -> 4 [] c = "5" -> 5 [] c = "6" -> 6 [] c = "7" -> 7
      [] c = "8" -> 8 [] c = "9" -> 9

RECURSIVE SkipWhitespace(_)
SkipWhitespace(chars) ==
    IF chars # <<>> /\ Head(chars) = " " THEN SkipWhitespace(Tail(chars)) ELSE chars

RECURSIVE ParseDigits(_, _)
\* value of the longest prefix of decimal digits, acc being the value so far
ParseDigits(chars, acc) ==
    IF chars # <<>> /\ Head(chars) \in Digits
    THEN ParseDigits(Tail(chars), acc * 10 + DigitValue(Head(chars)))
    ELSE acc

\* parseInt(text, 10): leading whitespace, an optional sign, then the longest
\* run of digits; NaN (None) when there is no digit
parseInt(chars) ==
    LET s == SkipWhitespace(chars)
        neg == s # <<>> /\ Head(s) = "-"
        signed == s # <<>> /\ Head(s) \in {"-", "+"}
        body == IF signed THEN Tail(s) ELSE s
    IN  IF body = <<>> \/ Head(body) \notin Digits THEN None
        ELSE Some(IF neg THEN 0 - ParseDigits(body, 0) ELSE ParseDigits(body, 0))

-----------------------------------------------------------------------------
(* availability-checker.ts *)

availabilityErrorCodes == {"invalid-key", "rate-limited", "service-down"}

\* A Retry-After header as the checker sees it: its text, and what
\* Date.parse(text) - Date.now() evaluates to (None when Date.parse is NaN).
Header(chars, dateMinusNow) == [chars |-> chars, dateMinusNow |-> dateMinusNow]

parseRetryAfter(value) ==
    IF value = None \/ value[1].chars = <<>> THEN None
    ELSE LET seconds == parseInt(value[1].chars)
             delayMs == value[1].dateMinusNow
         IN  IF seconds # None /\ seconds[1] >= 0 THEN Some(seconds[1] * 1000)
             ELSE IF delayMs # None
                  THEN (IF delayMs[1] > 0 THEN delayMs ELSE None)
                  ELSE None

\* faulty variant: the Retry-After rule tested before the 401/403 rule
classifyResponse_hintFirst(status, hasRetryAfter) ==
    IF hasRetryAfter THEN "rate-limited"
    ELSE IF status = 401 \/ status = 403 THEN "invalid-key"
    ELSE "service-down"

classifyResponse(status, hasRetryAfter) ==
    IF status = 401 \/ status = 403 THEN "invalid-key"
    ELSE IF hasRetryAfter THEN "rate-limited"
    ELSE "service-down"

\* An AvailabilityError, or any other thrown value: every field is optional
Thrown(code, statusCode, retryAfterMs, message) ==
    [code |-> code, statusCode |-> statusCode,
     retryAfterMs |-> retryAfterMs, message |-> message]

\* faulty variant: classified by the presence of the header, parsed or not
createErrorFromResponse_rawHint(status, statusText, retryAfter) ==
    LET retryAfterMs == parseRetryAfter(retryAfter)
        code == classifyResponse(status, retryAfter # None)
        message ==
            CASE code = "invalid-key" ->
                   "API key is invalid or unauthorized (" \o ToString(status)
                       \o " " \o statusText \o ")"
              [] code = "rate-limited" ->
                   "Rate limited. Retry after "
                       \o ToString(CeilDiv(Coalesce(retryAfterMs, 0), 1000)) \o " seconds"
              [] code = "service-down" ->
                   "Service unavailable (" \o ToString(status)
                       \o " " \o statusText \o ")"
    IN  Thrown(Some(code), Some(status), retryAfterMs, Some(message))

createErrorFromResponse(status, statusText, retryAfter) ==
    LET retryAfterMs == parseRetryAfter(retryAfter)
        code == classifyResponse(status, retryAfterMs # None)
        message ==
            CASE code = "invalid-key" ->
                   "API key is invalid or unauthorized (" \o ToString(status)
                       \o " " \o statusText \o ")"
              [] code = "rate-limited" ->
                   "Rate limited. Retry after "
                       \o ToString(CeilDiv(retryAfterMs[1], 1000)) \o " seconds"
              [] code = "service-down" ->
                   "Service unavailable (" \o ToString(status)
                       \o " " \o statusText \o ")"
    IN  Thrown(Some(code), Some(status), retryAfterMs, Some(message))

\* What fetch may throw: an Error with a name and a message, or a non-Error
Exception(isError, name, message) ==
    [isError |-> isError, name |-> name, message |-> message]

\* faulty variant: a timeout is reported as rate-limited with a delay
createErrorFromException_rateLimited(error) ==
    LET message == IF error.isError THEN error.message ELSE "Unknown error occurred"
    IN  IF error.isError /\ error.name = "AbortError"
        THEN Thrown(Some("rate-limited"), None, Some(0),
                    Some("Request timed out"))
        ELSE Thrown(Some("service-down"), None, None, Some("Network error: " \o message))

createErrorFromException(error) ==
    LET message == IF error.isError THEN error.message ELSE "Unknown error occurred"
    IN  IF error.isError /\ error.name = "AbortError"
        THEN Thrown(Some("service-down"), None, None, Some("Request timed out"))
        ELSE Thrown(Some("service-down"), None, None, Some("Network error: " \o message))

isAvailabilityError(error) ==
    /\ error.code # None
    /\ error.message # None
    /\ error.code[1] \in availabilityErrorCodes

DEFAULT_TIMEOUT_MS == 10000

\* CheckerOptions: timeoutMs and signal are optional (baseUrl plays no part)
CheckerOptions(apiKey, timeoutMs, signal) ==
    [apiKey |-> apiKey, timeoutMs |-> timeoutMs, signal |-> signal]

\* faulty variant: the timeout is armed whether or not a signal is supplied
timeoutId_always(options) ==
    Some(Coalesce(options.timeoutMs, DEFAULT_TIMEOUT_MS))

\* the timeout checkAnthropicAvailability arms before the fetch: none with an
\* external signal, else one of timeoutMs (None: no timeout armed)
timeoutId(options) ==
    IF options.signal # None THEN None
    ELSE Some(Coalesce(options.timeoutMs, DEFAULT_TIMEOUT_MS))

\* what fetch throws when its signal aborts
AbortError == Exception(TRUE, "AbortError", "This operation was aborted")

\* Outcome of the single fetch of checkAnthropicAvailability
Response(status, statusText, retryAfter) ==
    [kind |-> "response", status |-> status, statusText |-> statusText,
     retryAfter |-> retryAfter]

FetchThrows(error) == [kind |-> "throws", error |-> error]

\* response.ok
ok(response) == response.status >= 200 /\ response.status <= 299

\* checkAnthropicAvailability: None when it resolves, Some(error) when it rejects
checkAnthropicAvailability(fetched) ==
    IF fetched.kind = "response"
    THEN IF ~ok(fetched)
         THEN Some(createErrorFromResponse(fetched.status, fetched.statusText,
                                           fetched.retryAfter))
         ELSE None
    ELSE Some(createErrorFromException(fetched.error))

-----------------------------------------------------------------------------
(* llm-availability-machine.ts: context, guards, actions, delays *)

DEFAULT_maxRetries == 5

DEFAULT_baseBackoffMs == 10000

DEFAULT_maxBackoffMs == 600000

DEFAULT_rateLimitDefaultMs == 60000

LlmAvailabilityInput(provider, apiKey, maxRetries, baseBackoffMs, maxBackoffMs, rateLimitDefaultMs) ==
    [provider |-> provider, apiKey |-> apiKey, maxRetries |-> maxRetries,
     baseBackoffMs |-> baseBackoffMs, maxBackoffMs |-> maxBackoffMs,
     rateLimitDefaultMs |-> rateLimitDefaultMs]

createInitialContext(input) ==
    [provider |-> input.provider,
     apiKey |-> input.apiKey,
     retryCount |-> 0,
     retryAfterMs |-> None,
     currentBackoffMs |-> Coalesce(input.baseBackoffMs, DEFAULT_baseBackoffMs),
     maxRetries |-> Coalesce(input.maxRetries, DEFAULT_maxRetries),
     baseBackoffMs |-> Coalesce(input.baseBackoffMs, DEFAULT_baseBackoffMs),
     maxBackoffMs |-> Coalesce(input.maxBackoffMs, DEFAULT_maxBackoffMs),
     rateLimitDefaultMs |->
         Coalesce(input.rateLimitDefaultMs, DEFAULT_rateLimitDefaultMs),
     lastErrorMessage |-> None,
     lastErrorCode |-> None]

\* the promise actor of the machine: checkAnthropicAvailability is called with
\* the apiKey of the input and the signal of the actor, and no timeoutMs
checkAvailability(input) ==
    CheckerOptions(input.apiKey, None, Some("signal"))

isDisabled(ctx) == ctx.provider = "none"

\* faulty variant: the empty string counts as a key
hasNoKey_undefinedOnly(ctx) == ctx.apiKey = None

\* !context.apiKey: undefined and the empty string are both falsy
hasNoKey(ctx) == ctx.apiKey = None \/ ctx.apiKey = Some("")

\* faulty variant: off by one, one retry too many
canRetry_inclusive(ctx) == ctx.retryCount <= ctx.maxRetries

canRetry(ctx) == ctx.retryCount < ctx.maxRetries

isInvalidKeyError(error) ==
    isAvailabilityError(error) /\ error.code = Some("invalid-key")

isRateLimitError(error) ==
    isAvailabilityError(error) /\ error.code = Some("rate-limited")

resetRetryState(ctx) ==
    [ctx EXCEPT !.retryCount = 0,
                !.currentBackoffMs = ctx.baseBackoffMs,
                !.retryAfterMs = None,
                !.lastErrorMessage = None,
                !.lastErrorCode = None]

incrementRetry(ctx) == [ctx EXCEPT !.retryCount = ctx.retryCount + 1]

calculateBackoff(ctx) ==
    [ctx EXCEPT !.currentBackoffMs = Min(ctx.currentBackoffMs * 2, ctx.maxBackoffMs)]

setRateLimitError(ctx, error) ==
    [ctx EXCEPT !.retryAfterMs = error.retryAfterMs,
                !.lastErrorMessage = error.message,
                !.lastErrorCode = error.statusCode]

\* faulty variant: the HTTP status of the failure is not recorded
setError_messageOnly(ctx, error) ==
    [ctx EXCEPT !.lastErrorMessage = error.message]

setError(ctx, error) ==
    [ctx EXCEPT !.lastErrorMessage = error.message,
                !.lastErrorCode = error.statusCode]

\* faulty variant: the event is merged, an omitted apiKey keeps the earlier key
updateConfig_merge(ctx, e) ==
    [ctx EXCEPT !.provider = e.provider,
                !.apiKey = IF e.apiKey = None THEN ctx.apiKey ELSE e.apiKey]

updateConfig(ctx, e) ==
    [ctx EXCEPT !.provider = e.provider, !.apiKey = e.apiKey]

\* faulty variant: `||` in place of `??`, a hint of 0 falls back to the default
RATE_LIMIT_DELAY_falsy(ctx) ==
    IF ctx.retryAfterMs = None \/ ctx.retryAfterMs = Some(0)
    THEN ctx.rateLimitDefaultMs
    ELSE ctx.retryAfterMs[1]

RATE_LIMIT_DELAY(ctx) == Coalesce(ctx.retryAfterMs, ctx.rateLimitDefaultMs)

BACKOFF_DELAY(ctx) == ctx.currentBackoffMs

-----------------------------------------------------------------------------
(* llm-availability-machine.ts: states *)

llmAvailabilityStates ==
    {"initializing", "disabled", "checking", "available", "keyMissing",
     "invalidKey", "rateLimited", "serviceDown"}

CHECK == [type |-> "CHECK"]

CONFIGURE(provider, apiKey) ==
    [type |-> "CONFIGURE", provider |-> provider, apiKey |-> apiKey]

\* a transition: its target and the context after its actions
Goto(target, ctx) == Some([target |-> target, context |-> ctx])

\* faulty variant: only an undefined key counts as missing
initializing_undefinedOnly(ctx) ==
    IF isDisabled(ctx) THEN "disabled"
    ELSE IF ctx.apiKey = None THEN "keyMissing"
    ELSE "checking"

\* `always` of initializing: the first branch whose guard holds
initializing(ctx) ==
    IF isDisabled(ctx) THEN "disabled"
    ELSE IF hasNoKey(ctx) THEN "keyMissing"
    ELSE "checking"

disabled_on(ctx, event) ==
    IF event.type = "CONFIGURE" THEN Goto("initializing", updateConfig(ctx, event))
    ELSE None

\* faulty variant: CHECK re-enters checking and invokes the checker again
checking_on_reenter(ctx, event) ==
    IF event.type = "CHECK" THEN Goto("checking", ctx) ELSE None

\* checking declares an invoke and no `on`: CHECK and CONFIGURE are not handled
checking_on(ctx, event) == None

checking_onDone(ctx) == Goto("available", resetRetryState(ctx))

\* faulty variant: no fallback branch, only service-down leads to serviceDown
checking_onError_noFallback(ctx, error) ==
    IF isInvalidKeyError(error) THEN Goto("invalidKey", setError(ctx, error))
    ELSE IF isRateLimitError(error)
         THEN Goto("rateLimited", setRateLimitError(ctx, error))
    ELSE IF isAvailabilityError(error)
         THEN Goto("serviceDown", incrementRetry(setError(ctx, error)))
    ELSE None

\* faulty variant: a failure that leads to serviceDown does not count
checking_onError_noIncrement(ctx, error) ==
    IF isInvalidKeyError(error) THEN Goto("invalidKey", setError(ctx, error))
    ELSE IF isRateLimitError(error)
         THEN Goto("rateLimited", setRateLimitError(ctx, error))
    ELSE Goto("serviceDown", setError(ctx, error))

checking_onError(ctx, error) ==
    IF isInvalidKeyError(error) THEN Goto("invalidKey", setError(ctx, error))
    ELSE IF isRateLimitError(error)
         THEN Goto("rateLimited", setRateLimitError(ctx, error))
    ELSE Goto("serviceDown", incrementRetry(setError(ctx, error)))

available_on(ctx, event) ==
    IF event.type = "CHECK" THEN Goto("checking", ctx)
    ELSE IF event.type = "CONFIGURE"
         THEN Goto("initializing", updateConfig(ctx, event))
    ELSE None

keyMissing_on(ctx, event) ==
    IF event.type = "CONFIGURE" THEN Goto("initializing", updateConfig(ctx, event))
    ELSE None

invalidKey_on(ctx, event) ==
    IF event.type = "CHECK" THEN Goto("checking", ctx)
    ELSE IF event.type = "CONFIGURE"
         THEN Goto("initializing", updateConfig(ctx, event))
    ELSE None

rateLimited_on(ctx, event) ==
    IF event.type = "CHECK" THEN Goto("checking", ctx)
    ELSE IF event.type = "CONFIGURE"
         THEN Goto("initializing", updateConfig(ctx, event))
    ELSE None

rateLimited_after(ctx) == Goto("checking", ctx)

\* faulty variant: CHECK without resetRetryState, as in the other states
serviceDown_on_noReset(ctx, event) ==
    IF event.type = "CHECK" THEN Goto("checking", ctx)
    ELSE IF event.type = "CONFIGURE"
         THEN Goto("initializing", updateConfig(ctx, event))
    ELSE None

serviceDown_on(ctx, event) ==
    IF event.type = "CHECK" THEN Goto("checking", resetRetryState(ctx))
    ELSE IF event.type = "CONFIGURE"
         THEN Goto("initializing", updateConfig(ctx, event))
    ELSE None

serviceDown_after(ctx) ==
    IF canRetry(ctx) THEN Goto("checking", calculateBackoff(ctx)) ELSE None

\* the `on` of the active state
on(s, ctx, event) ==
    CASE s = "disabled" -> disabled_on(ctx, event)
      [] s = "checking" -> checking_on(ctx, event)
      [] s = "available" -> available_on(ctx, event)
      [] s = "keyMissing" -> keyMissing_on(ctx, event)
      [] s = "invalidKey" -> invalidKey_on(ctx, event)
      [] s = "rateLimited" -> rateLimited_on(ctx, event)
      [] s = "serviceDown" -> serviceDown_on(ctx, event)
      [] OTHER -> None

\* the `after` of the state the elapsed delay was scheduled by
after(s, ctx) ==
    CASE s = "rateLimited" -> rateLimited_after(ctx)
      [] s = "serviceDown" -> serviceDown_after(ctx)
      [] OTHER -> None

\* entry of a state with `invoke`: the promise actor starts, its input read
\* from the context
invoke(s, ctx, ps) ==
    IF s = "checking" THEN Append(ps, [apiKey |-> ctx.apiKey]) ELSE ps

\* exit of a state with `invoke`: the invoked actor is stopped (its abort
\* signal fires and its result is no longer delivered)
stopInvoked(s, ps) == IF s = "checking" THEN <<>> ELSE ps

\* faulty variant: invalidKey schedules a delayed event as rateLimited does
schedule_invalidKey(s, ctx, ts) ==
    CASE s \in {"rateLimited", "invalidKey"} ->
           ts \cup {[state |-> s, delay |-> RATE_LIMIT_DELAY(ctx)]}
      [] s = "serviceDown" ->
           ts \cup {[state |-> s, delay |-> BACKOFF_DELAY(ctx)]}
      [] OTHER -> ts

\* entry of a state with `after`: the delay is evaluated and the event scheduled
schedule(s, ctx, ts) ==
    CASE s = "rateLimited" ->
           ts \cup {[state |-> s, delay |-> RATE_LIMIT_DELAY(ctx)]}
      [] s = "serviceDown" ->
           ts \cup {[state |-> s, delay |-> BACKOFF_DELAY(ctx)]}
      [] OTHER -> ts

\* faulty variant: the delayed event outlives the exit of its state
cancel_never(s, ts) == ts

\* exit of a state with `after`: its scheduled event is cancelled
cancel(s, ts) == {t \in ts : t.state # s}

-----------------------------------------------------------------------------
(* Inputs explored *)

Providers == {"none", "anthropic"}

\* apiKey: undefined, the empty string, a key
ApiKeys == {None, Some(""), Some("key-a")}

\* <<baseBackoffMs, maxBackoffMs>>: the pair of the test 'caps backoff at
\* maxBackoffMs', and a pair with base > max, which agentConfigSchema accepts
\* (both >= 1000, no order imposed)
BackoffPairs == {<<100, 300>>, <<2000, 1000>>}

Inputs ==
    {LlmAvailabilityInput(p, k, Some(m), Some(b[1]), Some(b[2]), None) :
        p \in Providers, k \in ApiKeys, m \in 0..MaxMaxRetries, b \in BackoffPairs}

\* Retry-After headers of the responses: absent, "0", "2", "-5"
RetryAfterHeaders ==
    {None,
     Some(Header(<<"0">>, None)),
     Some(Header(<<"2">>, None)),
     Some(Header(<<"-", "5">>, None))}

FailStatuses == {401, 429, 503}

StatusText(status) ==
    CASE status = 401 -> "Unauthorized"
      [] status = 403 -> "Forbidden"
      [] status = 429 -> "Too Many Requests"
      [] status = 503 -> "Service Unavailable"
      [] OTHER -> ""

\* what the dependency may answer to one probe
Fetches ==
    {Response(200, "OK", None)}
    \cup {Response(s, StatusText(s), h) : s \in FailStatuses, h \in RetryAfterHeaders}
    \cup {FetchThrows(Exception(TRUE, "AbortError", "This operation was aborted")),
          FetchThrows(Exception(TRUE, "TypeError", "fetch failed")),
          FetchThrows(Exception(FALSE, "", ""))}

\* rejections of a checker replaced as in llm-availability-machine.test.ts: a
\* rate-limited error without retryAfterMs, and an Error that is no
\* AvailabilityError
Rejections ==
    {Thrown(Some("rate-limited"), Some(429), None, Some("Rate limited")),
     Thrown(None, None, None, Some("boom"))}

\* how a probe may settle: None is resolved, Some(error) is rejected
ProbeResults ==
    {checkAnthropicAvailability(f) : f \in Fetches} \cup {Some(e) : e \in Rejections}

-----------------------------------------------------------------------------
(* AvailabilityManager: types and construction *)

AvailabilityConfig(retryCount, reconnectIntervalMs, apiKey) ==
    [retryCount |-> retryCount, reconnectIntervalMs |-> reconnectIntervalMs,
     apiKey |-> apiKey]

\* AvailabilityState: reason is present only with status unavailable (the
\* date `since` is left out)
AvailabilityState(status, reason) == [status |-> status, reason |-> reason]

\* new AvailabilityManager(config, checker); `checks` are the calls of check()
\* that await the checker
createAvailabilityManager(config) ==
    [config |-> config,
     state |-> AvailabilityState("unknown", None),
     listeners |-> {},
     retryTimer |-> None,
     failureCount |-> 0,
     checks |-> <<>>]

\* one run of code of the manager: the manager, and what the run has done
Run(m) == [m |-> m, notified |-> <<>>, invoked |-> 0, scheduled |-> FALSE, ended |-> None]

\* faulty variant: only an undefined key counts as missing
noApiKey_undefinedOnly(config) == config.apiKey = None

\* !this.config.apiKey
noApiKey(config) == config.apiKey = None \/ config.apiKey = Some("")

\* setState: the state is replaced and every listener is called with it
setState(r, newState) ==
    [r EXCEPT !.m.state = newState,
              !.notified = IF r.m.listeners = {} THEN @ ELSE Append(@, newState)]

scheduleRetry(r) ==
    IF r.m.retryTimer # None THEN r
    ELSE IF r.m.state = AvailabilityState("unavailable", Some("no-api-key")) THEN r
    ELSE [r EXCEPT !.m.retryTimer = Some(r.m.config.reconnectIntervalMs),
                   !.scheduled = TRUE]

cancelRetry(r) == [r EXCEPT !.m.retryTimer = None]

\* a call of check(): who made the first call of the chain (the host or the
\* reconnect timer), how often the chain has invoked the checker, whether a
\* check of another chain has been in flight at the same time, whether
\* dispose() has been called since the chain began
CheckCall(by, calls, alone, disposed) ==
    [by |-> by, calls |-> calls, alone |-> alone, disposed |-> disposed]

\* check() up to its await: without a key the state is set and the call
\* returns; with a key the state is set to checking and the checker is invoked
check(r, c) ==
    IF noApiKey(r.m.config)
    THEN [setState(r, AvailabilityState("unavailable", Some("no-api-key")))
            EXCEPT !.ended = Some(c)]
    ELSE LET r1 == setState(r, AvailabilityState("checking", None))
             others == [i \in 1..Len(r1.m.checks) |->
                           [r1.m.checks[i] EXCEPT !.alone = FALSE]]
             mine == [c EXCEPT !.calls = @ + 1,
                               !.alone = @ /\ r1.m.checks = <<>>]
         IN  [r1 EXCEPT !.m.checks = Append(others, mine), !.invoked = @ + 1]

\* check() after its await: the checker has resolved
check_try(r, c) ==
    LET r1 == [r EXCEPT !.m.failureCount = 0]
        r2 == setState(r1, AvailabilityState("available", None))
    IN  [cancelRetry(r2) EXCEPT !.ended = Some(c)]

\* check() after its await: the checker has rejected
check_catch(r, c) ==
    LET r1 == [r EXCEPT !.m.failureCount = @ + 1]
    IN  IF r1.m.failureCount >= r1.m.config.retryCount
        THEN [scheduleRetry(setState(r1, AvailabilityState("unavailable",
                                                            Some("api-error"))))
                EXCEPT !.ended = Some(c)]
        ELSE check(r1, c)

\* the callback of the reconnect timer
retryTimer_callback(r) ==
    check([r EXCEPT !.m.retryTimer = None, !.m.failureCount = 0],
          CheckCall("timer", 0, TRUE, FALSE))

dispose(r) == [cancelRetry(r) EXCEPT !.m.listeners = {}]

subscribe(r, listener) == [r EXCEPT !.m.listeners = @ \cup {listener}]

\* what one operation on the manager did: the states its listeners were
\* called with, the checker invocations it started, whether it set a timer
Observation(op, notified, invoked, scheduled, ended) ==
    [op |-> op, notified |-> notified, invoked |-> invoked,
     scheduled |-> scheduled, ended |-> ended]

\* the test configuration of availability.test.ts, the manager not used
NoManagerUse ==
    /\ manager = createAvailabilityManager(AvailabilityConfig(3, 1000, Some("test-api-key")))
    /\ observed = [disposed |-> FALSE, allFailed |-> TRUE,
                   last |-> Observation("new", <<>>, 0, FALSE, None)]

-----------------------------------------------------------------------------
(* The actor *)

\* One macrostep that takes transition t out of `source`: exit of the source
\* (stop the invoked actor, cancel the delayed event), the actions of t, the
\* eventless transition of initializing, entry of the state settled in.
\* ps and ts are the in-flight probes and pending timers before the exit.
Transition(source, t, ps, ts, event) ==
    LET dest == IF t.target = "initializing" THEN initializing(t.context)
                ELSE t.target
    IN  /\ t.context.retryCount <= MaxRetryCount
        /\ state' = dest
        /\ context' = t.context
        /\ probes' = invoke(dest, t.context, stopInvoked(source, ps))
        /\ timers' = schedule(dest, t.context, cancel(source, ts))
        /\ started' = Len(invoke(dest, t.context, <<>>))
        /\ lastEvent' = [in |-> source, event |-> event]

\* An event no transition of the active state handles is dropped
Dropped(ps, ts, event) ==
    /\ probes' = ps
    /\ timers' = ts
    /\ lastEvent' = [in |-> state, event |-> event]
    /\ started' = 0
    /\ UNCHANGED <<state, context>>

\* actor.start() on createActor(llmAvailabilityMachine, { input })
Start(input) ==
    LET ctx == createInitialContext(input)
        dest == initializing(ctx)
    IN  /\ state = dest
        /\ context = ctx
        /\ probes = invoke(dest, ctx, <<>>)
        /\ timers = schedule(dest, ctx, {})
        /\ started = Len(invoke(dest, ctx, <<>>))
        /\ downStreak = 0
        /\ autoRetries = 0
        /\ landed = 0
        /\ lastEvent = [in |-> "initializing", event |-> [type |-> "xstate.init"]]

Init ==
    /\ \E input \in Inputs : Start(input)
    /\ call = [fn |-> "none"]
    /\ NoManagerUse

\* the host sends CHECK
SendCheck ==
    LET t == on(state, context, CHECK)
    IN  /\ IF t = None THEN Dropped(probes, timers, CHECK)
           ELSE Transition(state, t[1], probes, timers, CHECK)
        /\ downStreak' = IF t # None /\ state = "serviceDown" THEN 0 ELSE downStreak
        /\ autoRetries' = IF t # None /\ state = "serviceDown" THEN 0 ELSE autoRetries
        /\ landed' = IF t # None /\ state = "serviceDown" THEN 0 ELSE landed
        /\ UNCHANGED <<call, managerVars>>

\* the host sends CONFIGURE { provider, apiKey? }
SendConfigure(provider, apiKey) ==
    LET e == CONFIGURE(provider, apiKey)
        t == on(state, context, e)
    IN  /\ IF t = None THEN Dropped(probes, timers, e)
           ELSE Transition(state, t[1], probes, timers, e)
        /\ downStreak' = IF t # None THEN 0 ELSE downStreak
        /\ autoRetries' = IF t # None THEN 0 ELSE autoRetries
        /\ UNCHANGED landed
        /\ UNCHANGED <<call, managerVars>>

RemoveAt(seq, i) == SubSeq(seq, 1, i - 1) \o SubSeq(seq, i + 1, Len(seq))

\* the i-th in-flight probe settles with `result`: xstate.done.actor or
\* xstate.error.actor is delivered to the machine
ProbeSettles(i, result) ==
    LET e == IF result = None THEN [type |-> "xstate.done.actor"]
             ELSE [type |-> "xstate.error.actor", error |-> result[1]]
        t == IF state # "checking" THEN None
             ELSE IF result = None THEN checking_onDone(context)
             ELSE checking_onError(context, result[1])
        rest == RemoveAt(probes, i)
    IN  /\ i \in 1..Len(probes)
        /\ IF t = None THEN Dropped(rest, timers, e)
           ELSE Transition(state, t[1], rest, timers, e)
        /\ downStreak' = IF result # None /\ result[1].code = Some("service-down")
                         THEN downStreak + 1 ELSE 0
        /\ autoRetries' = IF t # None /\ result = None THEN 0 ELSE autoRetries
        /\ landed' = IF t = None THEN landed
                     ELSE IF result = None THEN 0
                     ELSE IF t[1].target = "serviceDown" THEN landed + 1
                     ELSE landed
        /\ UNCHANGED <<call, managerVars>>

\* the delay of the pending delayed event tm elapses: xstate.after is delivered
TimerElapses(tm) ==
    LET e == [type |-> "xstate.after", state |-> tm.state, delay |-> tm.delay]
        t == IF state = tm.state THEN after(state, context) ELSE None
        rest == timers \ {tm}
    IN  /\ tm \in timers
        /\ IF t = None THEN Dropped(probes, rest, e)
           ELSE Transition(state, t[1], probes, rest, e)
        /\ autoRetries' = IF t # None /\ state = "serviceDown"
                          THEN autoRetries + 1 ELSE autoRetries
        /\ UNCHANGED <<downStreak, landed, call, managerVars>>

Next ==
    \/ SendCheck
    \/ \E p \in Providers, k \in ApiKeys : SendConfigure(p, k)
    \/ \E i \in 1..Len(probes), r \in ProbeResults : ProbeSettles(i, r)
    \/ \E tm \in timers : TimerElapses(tm)

Spec == Init /\ [][Next]_vars

-----------------------------------------------------------------------------
(* The machine left to itself: the host sends no CHECK and no CONFIGURE *)

\* the probe results that are failures
FailingResults == ProbeResults \ {None}

\* every probe fails
NextFailing ==
    \/ \E i \in 1..Len(probes), r \in FailingResults : ProbeSettles(i, r)
    \/ \E tm \in timers : TimerElapses(tm)

\* every probe is answered (with a failure) and every delay elapses
SpecFailing == Init /\ [][NextFailing]_vars /\ WF_vars(NextFailing)

\* the timeout armed by checkAnthropicAvailability for the i-th probe fires:
\* the request is aborted and the probe rejects
TimeoutAborts(i) ==
    /\ i \in 1..Len(probes)
    /\ timeoutId(checkAvailability(probes[i])) # None
    /\ ProbeSettles(i, checkAnthropicAvailability(FetchThrows(AbortError)))

\* the dependency answers a probe or not, as it likes
NextUnattended ==
    \/ \E i \in 1..Len(probes), r \in ProbeResults : ProbeSettles(i, r)
    \/ \E tm \in timers : TimerElapses(tm)

\* a delay that is pending elapses and a timeout that is armed fires; nothing
\* makes the dependency answer
SpecUnattended ==
    /\ Init
    /\ [][NextUnattended]_vars
    /\ WF_vars(\E tm \in timers : TimerElapses(tm))
    /\ WF_vars(\E i \in 1..Len(probes) : TimeoutAborts(i))

-----------------------------------------------------------------------------
(* The pure functions of availability-checker.ts, called on their own *)

Statuses == 100..599

CallClassifyResponse(status, hasRetryAfter) ==
    /\ call' = [fn |-> "classifyResponse", status |-> status,
                hasRetryAfter |-> hasRetryAfter,
                result |-> classifyResponse(status, hasRetryAfter)]
    /\ UNCHANGED <<machineVars, managerVars>>

\* Retry-After values parseRetryAfter is called with: null, the empty string,
\* "0", "2", "10", "-5" (Date.parse of it is NaN or a date of the past,
\* depending on the engine), an HTTP-date 30 s ahead, at now and 5 s ago,
\* "abc", and "5x" (digits followed by something else)
RetryAfterValues ==
    {None,
     Some(Header(<<>>, None)),
     Some(Header(<<"0">>, None)),
     Some(Header(<<"2">>, None)),
     Some(Header(<<"1", "0">>, None)),
     Some(Header(<<"-", "5">>, None)),
     Some(Header(<<"-", "5">>, Some(0 - 800000))),
     Some(Header(<<"W", "e", "d", ",", " ", "2", "1", " ", "O", "c", "t">>, Some(30000))),
     Some(Header(<<"W", "e", "d", ",", " ", "2", "1", " ", "O", "c", "t">>, Some(0))),
     Some(Header(<<"W", "e", "d", ",", " ", "2", "1", " ", "O", "c", "t">>, Some(0 - 5000))),
     Some(Header(<<"a", "b", "c">>, None)),
     Some(Header(<<"5", "x">>, None))}

CallParseRetryAfter(value) ==
    /\ call' = [fn |-> "parseRetryAfter", value |-> value,
                result |-> parseRetryAfter(value)]
    /\ UNCHANGED <<machineVars, managerVars>>

\* statuses createErrorFromResponse is called with: 401 and 403, the statuses
\* of the tests (429, 500, 529), and other statuses that are not ok
ResponseStatuses == {400, 401, 403, 404, 429, 500, 503, 529}

CallCreateErrorFromResponse(status, retryAfter) ==
    /\ call' = [fn |-> "createErrorFromResponse", status |-> status,
                retryAfter |-> retryAfter,
                result |-> createErrorFromResponse(status, StatusText(status), retryAfter)]
    /\ UNCHANGED <<machineVars, managerVars>>

\* options checkAnthropicAvailability is called with
CheckerCalls ==
    {CheckerOptions(Some("key-a"), t, s) :
        t \in {None, Some(50)}, s \in {None, Some("signal")}}

\* checkAnthropicAvailability(options) up to its await: the timeout is armed
\* (or not) and the one request is sent
CallCheckAnthropicAvailability(options) ==
    /\ call.fn = "checkAnthropicAvailability" => call.pc # "fetch"
    /\ call' = [fn |-> "checkAnthropicAvailability",
                options |-> options,
                pc |-> "fetch",
                timeoutId |-> timeoutId(options),
                setTimeouts |-> Len(timeoutId(options)),
                fetches |-> 1,
                fetched |-> None,
                error |-> None]
    /\ UNCHANGED <<machineVars, managerVars>>

\* the await returns: try / catch settle the promise, finally clears the timeout
Settle(fetched) ==
    LET result == checkAnthropicAvailability(fetched)
    IN  /\ call' = [call EXCEPT !.pc = IF result = None THEN "resolved" ELSE "rejected",
                                !.timeoutId = None,
                                !.fetched = Some(fetched),
                                !.error = result]
        /\ UNCHANGED <<machineVars, managerVars>>

\* the dependency answers, or the request fails (an abort of the external
\* signal included)
FetchSettles(fetched) ==
    /\ call.fn = "checkAnthropicAvailability"
    /\ call.pc = "fetch"
    /\ fetched.kind = "throws" /\ fetched.error = AbortError
         => call.options.signal # None
    /\ Settle(fetched)

\* the timeout armed by the call fires: controller.abort() makes fetch throw
TimeoutFires ==
    /\ call.fn = "checkAnthropicAvailability"
    /\ call.pc = "fetch"
    /\ call.timeoutId # None
    /\ Settle(FetchThrows(AbortError))

InitChecker ==
    /\ Start(LlmAvailabilityInput("none", None, None, None, None, None))
    /\ call = [fn |-> "none"]
    /\ NoManagerUse

NextChecker ==
    \/ \E status \in Statuses, hasRetryAfter \in BOOLEAN :
          CallClassifyResponse(status, hasRetryAfter)
    \/ \E value \in RetryAfterValues : CallParseRetryAfter(value)
    \/ \E status \in ResponseStatuses, retryAfter \in RetryAfterValues :
          CallCreateErrorFromResponse(status, retryAfter)
    \/ \E options \in CheckerCalls : CallCheckAnthropicAvailability(options)
    \/ \E fetched \in Fetches : FetchSettles(fetched)
    \/ TimeoutFires

SpecChecker == InitChecker /\ [][NextChecker]_vars

-----------------------------------------------------------------------------
(* The AvailabilityManager used by a host *)

\* most check() calls awaiting the checker at once
MaxChecks == 2

\* largest failureCount explored
MaxFailureCount == 4

\* most checker invocations of one chain of check() calls
MaxCalls == 4

\* retryCount 1, 2 and 3 (the test configuration), with a key, without one
\* and with the empty string for a key
ManagerConfigs ==
    {AvailabilityConfig(n, 1000, k) :
        n \in 1..3, k \in {None, Some(""), Some("test-api-key")}}

\* the run r of operation op becomes the state of the manager
Commit(op, r) ==
    /\ r.m.failureCount <= MaxFailureCount
    /\ Len(r.m.checks) <= MaxChecks
    /\ \A i \in 1..Len(r.m.checks) : r.m.checks[i].calls <= MaxCalls
    /\ manager' = r.m
    /\ observed' = [observed EXCEPT
                       !.allFailed = @ /\ op # "resolved",
                       !.last = Observation(op, r.notified, r.invoked,
                                            r.scheduled, r.ended)]
    /\ UNCHANGED <<machineVars, call>>

\* the host calls manager.subscribe(listener)
Subscribe ==
    /\ ~observed.disposed
    /\ manager.listeners = {}
    /\ Commit("subscribe", subscribe(Run(manager), "listener"))

\* the host calls manager.check()
HostCheck == Commit("check", check(Run(manager), CheckCall("host", 0, TRUE, FALSE)))

\* the checker invoked by the i-th check() in flight resolves (succeeded) or
\* rejects
CheckerSettles(i, succeeded) ==
    /\ i \in 1..Len(manager.checks)
    /\ LET r == Run([manager EXCEPT !.checks = RemoveAt(@, i)])
           c == manager.checks[i]
       IN  Commit(IF succeeded THEN "resolved" ELSE "rejected",
                  IF succeeded THEN check_try(r, c) ELSE check_catch(r, c))

\* reconnectIntervalMs after scheduleRetry set it, the reconnect timer fires
RetryTimerFires ==
    /\ manager.retryTimer # None
    /\ Commit("timer", retryTimer_callback(Run(manager)))

\* the host calls manager.dispose()
Dispose ==
    /\ ~observed.disposed
    /\ LET stale == [i \in 1..Len(manager.checks) |->
                        [manager.checks[i] EXCEPT !.disposed = TRUE]]
           r == dispose(Run([manager EXCEPT !.checks = stale]))
       IN  /\ manager' = r.m
           /\ observed' = [disposed |-> TRUE, allFailed |-> observed.allFailed,
                           last |-> Observation("dispose", r.notified, r.invoked,
                                                r.scheduled, r.ended)]
           /\ UNCHANGED <<machineVars, call>>

InitManager ==
    /\ Start(LlmAvailabilityInput("none", None, None, None, None, None))
    /\ call = [fn |-> "none"]
    /\ \E config \in ManagerConfigs : manager = createAvailabilityManager(config)
    /\ observed = [disposed |-> FALSE, allFailed |-> TRUE,
                   last |-> Observation("new", <<>>, 0, FALSE, None)]

NextManager ==
    \/ Subscribe
    \/ HostCheck
    \/ \E i \in 1..Len(manager.checks), succeeded \in BOOLEAN :
          CheckerSettles(i, succeeded)
    \/ RetryTimerFires
    \/ Dispose

SpecManager == InitManager /\ [][NextManager]_vars

-----------------------------------------------------------------------------
(* Properties *)

\* the state the routing of initializing is to settle in
RoutedState(provider, apiKey) ==
    IF provider = "none" THEN "disabled"
    ELSE IF apiKey = None \/ apiKey = Some("") THEN "keyMissing"
    ELSE "checking"

C1_Settled(provider, apiKey) ==
    /\ state = RoutedState(provider, apiKey)
    /\ state \in {"disabled", "keyMissing"} => started = 0 /\ probes = <<>>

\* C1: on start and after every CONFIGURE the machine applies, the machine
\* never rests in initializing; it settles in disabled when the provider is
\* 'none', else in keyMissing when the key is absent or empty, else in
\* checking; settling in disabled or keyMissing starts no probe.
C1_InitialRouting ==
    /\ C1_Settled(context.provider, context.apiKey)
    /\ [](state # "initializing")
    /\ [][\A p \in Providers, k \in ApiKeys :
            (/\ lastEvent' = [in |-> state, event |-> CONFIGURE(p, k)]
             /\ on(state, context, CONFIGURE(p, k)) # None)
            => C1_Settled(p, k)']_vars

\* a CONFIGURE without a usable key was applied and the machine sits in
\* keyMissing with no probe started
C1_Witness ==
    /\ lastEvent.event.type = "CONFIGURE"
    /\ lastEvent.in = "available"
    /\ lastEvent.event.apiKey = Some("")
    /\ state = "keyMissing"
    /\ started = 0

\* the state a probe outcome is to lead to
OutcomeState(e) ==
    IF e.type = "xstate.done.actor" THEN "available"
    ELSE IF e.error.code = Some("invalid-key") THEN "invalidKey"
    ELSE IF e.error.code = Some("rate-limited") THEN "rateLimited"
    ELSE "serviceDown"

\* C2: every outcome of the probe invoked in checking is one transition:
\* success to available, invalid-key to invalidKey, rate-limited to
\* rateLimited, every other failure to serviceDown; none leaves the machine in
\* checking.
C2_ProbeOutcomes ==
    lastEvent.event.type \in {"xstate.done.actor", "xstate.error.actor"}
    => /\ lastEvent.in = "checking"
       /\ state = OutcomeState(lastEvent.event)
       /\ probes = <<>>

\* a rejection that is no AvailabilityError has put the machine in serviceDown
C2_Witness ==
    /\ lastEvent.event.type = "xstate.error.actor"
    /\ lastEvent.event.error.code = None
    /\ state = "serviceDown"

\* C3: classifyResponse returns exactly one category for every status and
\* both values of hasRetryAfter: invalid-key exactly for 401 and 403, else
\* rate-limited exactly when hasRetryAfter, else service-down.
C3_ClassifyResponse ==
    call.fn = "classifyResponse"
    => LET auth == call.status \in {401, 403}
       IN  /\ call.result \in availabilityErrorCodes
           /\ (call.result = "invalid-key") <=> auth
           /\ (call.result = "rate-limited") <=> (~auth /\ call.hasRetryAfter)
           /\ (call.result = "service-down") <=> (~auth /\ ~call.hasRetryAfter)

\* 401 with a Retry-After hint was classified invalid-key
C3_Witness ==
    /\ call.fn = "classifyResponse"
    /\ call.status = 401
    /\ call.hasRetryAfter
    /\ call.result = "invalid-key"

RECURSIVE Pow2(_)
Pow2(n) == IF n = 0 THEN 1 ELSE 2 * Pow2(n - 1)

\* C4: the delay scheduled on the n-th consecutive entry into serviceDown is
\* min(baseBackoffMs * 2^(n-1), maxBackoffMs), for every base and max and a
\* maxRetries large enough for the retry to be taken.
C4_BackoffSchedule ==
    (state = "serviceDown" /\ lastEvent.event.type = "xstate.error.actor"
        /\ downStreak >= 1 /\ downStreak < context.maxRetries)
    => timers = {[state |-> "serviceDown",
                  delay |-> Min(context.baseBackoffMs * Pow2(downStreak - 1),
                                context.maxBackoffMs)]}

\* the last probe failed with service-down and at least maxRetries probes in
\* a row have
C5_Exhausted ==
    /\ state = "serviceDown"
    /\ downStreak >= 1
    /\ downStreak >= context.maxRetries

\* C5: once maxRetries consecutive probes have failed with service-down the
\* machine is in serviceDown, and as long as the host sends neither CHECK nor
\* CONFIGURE it stays there with retryCount unchanged and starts no probe.
C5_RetryExhaustion ==
    /\ []((/\ lastEvent.event.type = "xstate.error.actor"
           /\ downStreak >= 1
           /\ downStreak >= context.maxRetries) => state = "serviceDown")
    /\ [][(C5_Exhausted /\ lastEvent'.event.type \notin {"CHECK", "CONFIGURE"})
          => /\ C5_Exhausted'
             /\ context'.retryCount = context.retryCount
             /\ started' = 0
             /\ probes' = <<>>]_vars

\* the backoff delay elapsed in exhausted serviceDown (maxRetries = 2) and
\* the machine stayed
C5_Witness ==
    /\ C5_Exhausted
    /\ context.maxRetries = 2
    /\ lastEvent = [in |-> "serviceDown",
                    event |-> [type |-> "xstate.after", state |-> "serviceDown",
                               delay |-> 200]]

\* C6: CHECK in serviceDown leads to checking with the retry state reset
\* (retryCount 0, currentBackoffMs = baseBackoffMs, retryAfterMs and the error
\* fields null) when the new probe starts; if that probe fails with
\* service-down, retryCount is 1 and the delay scheduled is baseBackoffMs.
C6_ManualCheckResets ==
    /\ [][(state = "serviceDown" /\ lastEvent'.event = CHECK)
          => /\ state' = "checking"
             /\ started' = 1
             /\ probes' = <<[apiKey |-> context.apiKey]>>
             /\ context' = [context EXCEPT !.retryCount = 0,
                                           !.currentBackoffMs = context.baseBackoffMs,
                                           !.retryAfterMs = None,
                                           !.lastErrorMessage = None,
                                           !.lastErrorCode = None]]_vars
    /\ [][(/\ state = "checking"
           /\ lastEvent = [in |-> "serviceDown", event |-> CHECK]
           /\ lastEvent'.event.type = "xstate.error.actor"
           /\ lastEvent'.event.error.code = Some("service-down"))
          => /\ state' = "serviceDown"
             /\ context'.retryCount = 1
             /\ timers' = {[state |-> "serviceDown",
                            delay |-> context.baseBackoffMs]}]_vars

\* a CHECK was sent in serviceDown of a machine with maxRetries = 1 (so
\* exhausted): the machine is checking, a probe in flight, the retry state reset
C6_Witness ==
    /\ state = "checking"
    /\ lastEvent = [in |-> "serviceDown", event |-> CHECK]
    /\ context.maxRetries = 1
    /\ context.retryCount = 0
    /\ context.currentBackoffMs = context.baseBackoffMs
    /\ probes = <<[apiKey |-> Some("key-a")]>>

\* C7: after a CONFIGURE sent in any state the retry context is the one of a
\* freshly created machine.
C7_ReconfigureDiscardsRetryContext ==
    lastEvent.event.type = "CONFIGURE"
    => /\ context.retryCount = 0
       /\ context.currentBackoffMs = context.baseBackoffMs
       /\ context.retryAfterMs = None
       /\ context.lastErrorMessage = None
       /\ context.lastErrorCode = None

\* C8: CONFIGURE with provider 'none' sent in any state, checking included,
\* puts the machine in disabled with provider 'none', no timer pending and no
\* probe in flight.
C8_ReconfigureNoneDisables ==
    (lastEvent.event.type = "CONFIGURE" /\ lastEvent.event.provider = "none")
    => /\ state = "disabled"
       /\ context.provider = "none"
       /\ timers = {}
       /\ probes = <<>>

\* C9: a CONFIGURE received in checking restarts the evaluation from
\* initializing with the provider and key of the event.
C9_ReconfigureWhileChecking ==
    (lastEvent.in = "checking" /\ lastEvent.event.type = "CONFIGURE")
    => /\ context.provider = lastEvent.event.provider
       /\ context.apiKey = lastEvent.event.apiKey
       /\ state = RoutedState(lastEvent.event.provider, lastEvent.event.apiKey)
       /\ state = "checking" => started = 1

\* C10: at most one probe is in flight, and only in checking; a CHECK sent in
\* checking starts no probe and changes neither state nor context.
C10_SingleProbe ==
    /\ [](Len(probes) <= 1 /\ (probes # <<>> => state = "checking"))
    /\ [][(state = "checking" /\ lastEvent'.event = CHECK)
          => /\ state' = "checking"
             /\ context' = context
             /\ probes' = probes
             /\ timers' = timers
             /\ started' = 0]_vars

\* a CHECK was sent in checking and the one probe is still in flight
C10_Witness ==
    /\ lastEvent = [in |-> "checking", event |-> CHECK]
    /\ state = "checking"
    /\ Len(probes) = 1

\* C11: a CHECK sent in any state other than checking moves the machine to
\* checking and starts a probe at once.
C11_CheckFromAnyState ==
    (lastEvent.event = CHECK /\ lastEvent.in # "checking")
    => /\ state = "checking"
       /\ started = 1
       /\ Len(probes) = 1

\* C12: the delayed event of rateLimited / serviceDown is cancelled as soon as
\* the machine leaves that state: the only pending delayed event is the one of
\* the current visit, a delayed event is delivered only in the state that
\* scheduled it, and none is pending once the machine is checking (so the
\* elapse of an old delay after a manual CHECK starts nothing).
C12_TimersCancelled ==
    /\ [](/\ \A tm \in timers : tm.state = state
          /\ Cardinality(timers) <= 1
          /\ Len(probes) <= 1)
    /\ [](lastEvent.event.type = "xstate.after"
            => lastEvent.in = lastEvent.event.state)
    /\ [][(state \in {"rateLimited", "serviceDown"} /\ state' # state
              /\ state' \notin {"rateLimited", "serviceDown"})
          => timers' = {}]_vars

\* a manual CHECK left rateLimited while its delay was pending: the machine
\* is checking with one probe and no delayed event is left
C12_Witness ==
    /\ lastEvent = [in |-> "rateLimited", event |-> CHECK]
    /\ state = "checking"
    /\ Len(probes) = 1
    /\ timers = {}

\* C13: on every entry into rateLimited the delay scheduled is the
\* retryAfterMs of the failure that caused the entry (0 included), or
\* rateLimitDefaultMs when that failure carried none; the machine leaves
\* rateLimited by itself only when that delay elapses, to checking.
C13_RateLimitDelay ==
    /\ [](state = "rateLimited"
            => /\ lastEvent.event.type = "xstate.error.actor"
               /\ timers = {[state |-> "rateLimited",
                             delay |-> Coalesce(lastEvent.event.error.retryAfterMs,
                                                context.rateLimitDefaultMs)]})
    /\ [][(state = "rateLimited" /\ lastEvent'.event.type \notin {"CHECK", "CONFIGURE"})
          => /\ lastEvent'.event.type = "xstate.after"
             /\ timers = {[state |-> "rateLimited", delay |-> lastEvent'.event.delay]}
             /\ state' = "checking"
             /\ started' = 1]_vars

\* a response with Retry-After: 0 has put the machine in rateLimited with a
\* delay of 0 scheduled
C13_Witness ==
    /\ state = "rateLimited"
    /\ lastEvent.event.type = "xstate.error.actor"
    /\ lastEvent.event.error.retryAfterMs = Some(0)
    /\ timers = {[state |-> "rateLimited", delay |-> 0]}

\* C14: in invalidKey no probe is in flight and no delayed event is pending;
\* the machine leaves invalidKey only on CHECK (to checking) or on CONFIGURE
\* (to where initializing routes the new configuration).
C14_InvalidKeyNoAutoRetry ==
    /\ [](state = "invalidKey" => timers = {} /\ probes = <<>> /\ started = 0)
    /\ [][state = "invalidKey"
          => \/ /\ lastEvent'.event = CHECK
                /\ state' = "checking"
             \/ /\ lastEvent'.event.type = "CONFIGURE"
                /\ state' = RoutedState(lastEvent'.event.provider,
                                        lastEvent'.event.apiKey)]_vars

\* a 401 has put the machine in invalidKey, nothing pending
C14_Witness ==
    /\ state = "invalidKey"
    /\ lastEvent.event.type = "xstate.error.actor"
    /\ context.lastErrorCode = Some(401)
    /\ timers = {}
    /\ probes = <<>>

\* C15: when the host sends no command and every probe fails, the machine
\* starts only finitely many probes and then stays in one state for good.
C15_BoundedAutoRetry ==
    \E s \in llmAvailabilityStates : <>[](state = s /\ probes = <<>>)

\* C16: left to itself the machine never stays forever in checking, in
\* rateLimited, or in serviceDown with retryCount < maxRetries, even when the
\* dependency never answers.
C16_ResolvesByItself ==
    /\ (state = "checking") ~> (state # "checking")
    /\ (state = "rateLimited") ~> (state # "rateLimited")
    /\ (state = "serviceDown" /\ canRetry(context)) ~> (state # "serviceDown")

\* the commands of the host
HostCommands == {CHECK} \cup {CONFIGURE(p, k) : p \in Providers, k \in ApiKeys}

\* longest sequence of host commands tried
MaxCommands == 2

RECURSIVE FreshProbeWithin(_, _, _)
\* some sequence of at most n host commands, sent in state s with context
\* ctx, makes the machine enter checking (and so start a probe)
FreshProbeWithin(s, ctx, n) ==
    /\ n > 0
    /\ \E e \in HostCommands :
          LET t == on(s, ctx, e)
          IN  /\ t # None
              /\ LET dest == IF t[1].target = "initializing"
                             THEN initializing(t[1].context) ELSE t[1].target
                 IN  \/ dest = "checking"
                     \/ FreshProbeWithin(dest, t[1].context, n - 1)

\* C17: from every reachable state and context, checking with a probe that
\* has not answered included, some finite sequence of host commands brings
\* the machine to checking with a fresh probe.
C17_NoUnrecoverableState == FreshProbeWithin(state, context, MaxCommands)

\* the text is a run of decimal digits
IsDigits(chars) == chars # <<>> /\ \A i \in 1..Len(chars) : chars[i] \in Digits

\* the reference C18 states: absent or empty is absent; a non-negative
\* integer n is n * 1000; a negative integer is absent; a date is its
\* distance to now when that is positive, else absent; anything else is absent
C18_Reference(value) ==
    IF value = None \/ value[1].chars = <<>> THEN None
    ELSE LET chars == value[1].chars
             date == value[1].dateMinusNow
         IN  IF IsDigits(chars) THEN Some(ParseDigits(chars, 0) * 1000)
             ELSE IF Head(chars) = "-" /\ IsDigits(Tail(chars)) THEN None
             ELSE IF date # None /\ date[1] > 0 THEN date
             ELSE None

\* C18: parseRetryAfter agrees with the reference on every header value.
C18_ParseRetryAfter ==
    call.fn = "parseRetryAfter" => call.result = C18_Reference(call.value)

\* C19: a probe that ends without an HTTP response (fetch throws something
\* that is no AvailabilityError) rejects with code service-down, no statusCode
\* and no retryAfterMs; the message is 'Request timed out' exactly for an
\* abort or timeout, and 'Network error: ...' otherwise.
C19_TransportFailures ==
    (/\ call.fn = "checkAnthropicAvailability"
     /\ call.pc # "fetch"
     /\ call.fetched[1].kind = "throws")
    => /\ call.pc = "rejected"
       /\ call.error[1].code = Some("service-down")
       /\ call.error[1].statusCode = None
       /\ call.error[1].retryAfterMs = None
       /\ LET thrown == call.fetched[1].error
              aborted == thrown.isError /\ thrown.name = "AbortError"
          IN  call.error[1].message =
                 IF aborted THEN Some("Request timed out")
                 ELSE IF thrown.isError
                      THEN Some("Network error: " \o thrown.message)
                 ELSE Some("Network error: Unknown error occurred")

\* the timeout of a call without a signal fired and the call rejected with
\* service-down, 'Request timed out'
C19_Witness ==
    /\ call.fn = "checkAnthropicAvailability"
    /\ call.pc = "rejected"
    /\ call.options.signal = None
    /\ call.fetched = Some(FetchThrows(AbortError))
    /\ call.error[1].code = Some("service-down")
    /\ call.error[1].message = Some("Request timed out")

\* C20: with an external signal checkAnthropicAvailability arms no timeout,
\* whatever timeoutMs is; without one it arms exactly one, of timeoutMs
\* (default 10000), pending while the request is; no timeout is left once the
\* call has settled; each call sends exactly one request.
C20_TimeoutOwnership ==
    call.fn = "checkAnthropicAvailability"
    => /\ call.fetches = 1
       /\ call.options.signal # None
            => call.setTimeouts = 0 /\ call.timeoutId = None
       /\ call.options.signal = None
            => /\ call.setTimeouts = 1
               /\ call.pc = "fetch"
                    => call.timeoutId =
                         Some(Coalesce(call.options.timeoutMs, DEFAULT_TIMEOUT_MS))
       /\ call.pc # "fetch" => call.timeoutId = None

\* a call with a signal and timeoutMs = 50 is waiting for its request, no
\* timeout armed
C20_Witness ==
    /\ call.fn = "checkAnthropicAvailability"
    /\ call.pc = "fetch"
    /\ call.options = CheckerOptions(Some("key-a"), Some(50), Some("signal"))
    /\ call.timeoutId = None
    /\ call.setTimeouts = 0

\* C21 as stated: in every reachable state retryCount is the number of
\* retries the serviceDown delay has triggered since the last successful probe
\* or manual reset (0 when the first probe has failed and no retry has been
\* taken yet).
C21_RetryCountIsAutoRetries == context.retryCount = autoRetries

\* C21, amended: in every reachable state retryCount is the number of failed
\* probes that led to serviceDown since the last successful probe or CHECK
\* from serviceDown, the first failure included; it is never behind the
\* retries taken, and in serviceDown it is at least one ahead of them.
C21_RetryCountIsFailures ==
    /\ context.retryCount = landed
    /\ context.retryCount >= autoRetries
    /\ state = "serviceDown" => context.retryCount >= autoRetries + 1

\* the first probe has failed with service-down and no retry has been taken:
\* retryCount is 1
C21_Witness ==
    /\ state = "serviceDown"
    /\ lastEvent.event.type = "xstate.error.actor"
    /\ autoRetries = 0
    /\ landed = 1
    /\ context.retryCount = 1

\* a chain of check() calls has just ended with the manager unavailable, all
\* checker calls so far have failed and no other check was in flight meanwhile
C22_CycleFailed ==
    /\ observed.last.op = "rejected"
    /\ observed.last.ended # None
    /\ observed.last.ended[1].alone
    /\ observed.allFailed
    /\ ~noApiKey(manager.config)

\* C22: with an API key, retryCount N >= 1 and a checker that fails on every
\* call, one call of check() (by the host or by the reconnect timer) invokes
\* the checker exactly N times, then the manager is unavailable with reason
\* api-error and one reconnect timer of reconnectIntervalMs is pending.
C22_CheckCycle ==
    C22_CycleFailed
    => /\ observed.last.ended[1].calls = manager.config.retryCount
       /\ manager.state = AvailabilityState("unavailable", Some("api-error"))
       /\ manager.retryTimer = Some(manager.config.reconnectIntervalMs)
       /\ manager.checks = <<>>

\* C23: a manager without an API key (undefined or empty) never invokes the
\* checker and never sets a reconnect timer; every check() sets the state to
\* unavailable with reason no-api-key without announcing checking.
C23_NoApiKey ==
    manager.config.apiKey \in {None, Some("")}
    => /\ manager.checks = <<>>
       /\ manager.retryTimer = None
       /\ observed.last.invoked = 0
       /\ ~observed.last.scheduled
       /\ manager.state \in {AvailabilityState("unknown", None),
                             AvailabilityState("unavailable", Some("no-api-key"))}
       /\ observed.last.op = "check"
            => /\ manager.state = AvailabilityState("unavailable", Some("no-api-key"))
               /\ observed.last.ended # None
               /\ observed.last.notified =
                     IF manager.listeners = {} THEN <<>> ELSE <<manager.state>>

\* check() on a manager whose key is the empty string: its listener was
\* called once, with unavailable / no-api-key
C23_Witness ==
    /\ manager.config.apiKey = Some("")
    /\ observed.last.op = "check"
    /\ observed.last.notified = <<AvailabilityState("unavailable", Some("no-api-key"))>>
    /\ observed.last.invoked = 0
    /\ manager.retryTimer = None

\* the last operation was the checker settling for a check() that was in
\* flight when dispose() was called
C24_StaleCheckSettled ==
    /\ observed.last.op \in {"resolved", "rejected"}
    /\ IF observed.last.ended # None THEN observed.last.ended[1].disposed
       ELSE manager.checks[Len(manager.checks)].disposed

\* C24: after dispose() no reconnect timer is pending, work started before
\* dispose() sets no timer and invokes the checker no more, and the listeners
\* registered before dispose() are not called again.
C24_DisposeEndsActivity ==
    observed.disposed
    => /\ observed.last.op = "dispose" => manager.retryTimer = None
       /\ C24_StaleCheckSettled
            => ~observed.last.scheduled /\ observed.last.invoked = 0
       /\ observed.last.notified = <<>>

\* the step is one of the reset events: a successful probe, a CHECK handled in
\* serviceDown, a CONFIGURE
C25_ResetEvent ==
    \/ lastEvent'.event.type \in {"xstate.done.actor", "CONFIGURE"}
    \/ lastEvent' = [in |-> "serviceDown", event |-> CHECK]

\* C25: apart from the reset events, retryCount changes only by +1 on a probe
\* failure that leads to serviceDown, currentBackoffMs changes only when the
\* serviceDown delay elapses with retryCount < maxRetries, and neither value
\* decreases.
C25_RetryCounterFrame ==
    [][~C25_ResetEvent
       => /\ context'.retryCount # context.retryCount
               => /\ context'.retryCount = context.retryCount + 1
                  /\ lastEvent'.event.type = "xstate.error.actor"
                  /\ state' = "serviceDown"
          /\ context'.currentBackoffMs # context.currentBackoffMs
               => /\ lastEvent'.event.type = "xstate.after"
                  /\ state = "serviceDown"
                  /\ canRetry(context)
          /\ context'.retryCount >= context.retryCount
          /\ context'.currentBackoffMs >= context.currentBackoffMs]_vars

\* C26: credential invariant. In checking, available, invalidKey, rateLimited
\* and serviceDown the provider is not 'none' and apiKey is a non-empty string;
\* in disabled the provider is 'none'; in keyMissing the provider is not 'none'
\* and apiKey is absent or empty. Every probe in flight carries the apiKey of
\* the context, a non-empty string.
C26_CredentialInvariant ==
    /\ state \in {"checking", "available", "invalidKey", "rateLimited", "serviceDown"}
         => context.provider # "none" /\ context.apiKey \notin {None, Some("")}
    /\ state = "disabled" => context.provider = "none"
    /\ state = "keyMissing"
         => context.provider # "none" /\ context.apiKey \in {None, Some("")}
    /\ \A i \in 1..Len(probes) :
          probes[i].apiKey = context.apiKey /\ probes[i].apiKey \notin {None, Some("")}

\* a probe started by a CONFIGURE that brings a key to a machine that had none
C26_Witness ==
    /\ state = "checking"
    /\ lastEvent = [in |-> "keyMissing", event |-> CONFIGURE("anthropic", Some("key-a"))]
    /\ Len(probes) = 1
    /\ probes[1].apiKey = Some("key-a")

\* the states a failed probe leads to
C27_FailureStates == {"invalidKey", "rateLimited", "serviceDown"}

\* C27: in available, retryCount = 0, currentBackoffMs = baseBackoffMs and
\* retryAfterMs, lastErrorMessage, lastErrorCode are null. A failed probe
\* leads to invalidKey, rateLimited or serviceDown with lastErrorMessage and
\* lastErrorCode those of its error (null where the error has none), these
\* states are entered by a failed probe only and the two fields do not change
\* while the machine stays there; in serviceDown retryCount >= 1.
C27_DiagnosticFields ==
    /\ [](state = "available"
            => /\ context.retryCount = 0
               /\ context.currentBackoffMs = context.baseBackoffMs
               /\ context.retryAfterMs = None
               /\ context.lastErrorMessage = None
               /\ context.lastErrorCode = None)
    /\ [](state = "serviceDown" => context.retryCount >= 1)
    /\ [](state \in C27_FailureStates => lastEvent.event.type # "xstate.init")
    /\ [][/\ lastEvent'.event.type = "xstate.error.actor"
             => /\ state' \in C27_FailureStates
                /\ context'.lastErrorMessage = lastEvent'.event.error.message
                /\ context'.lastErrorCode = lastEvent'.event.error.statusCode
          /\ state' \in C27_FailureStates /\ lastEvent'.event.type # "xstate.error.actor"
             => /\ state' = state
                /\ context'.lastErrorMessage = context.lastErrorMessage
                /\ context'.lastErrorCode = context.lastErrorCode]_vars

\* a second failure in a row, a 503 after a failure counted before: the fields
\* are those of the 503
C27_Witness ==
    /\ state = "serviceDown"
    /\ context.retryCount = 2
    /\ lastEvent.event.type = "xstate.error.actor"
    /\ lastEvent.event.error.statusCode = Some(503)
    /\ context.lastErrorCode = Some(503)
    /\ context.lastErrorMessage = Some("Service unavailable (503 Service Unavailable)")

\* the states with a transition for CONFIGURE
C29_Configurable ==
    {"disabled", "available", "keyMissing", "invalidKey", "rateLimited", "serviceDown"}

\* C29: a CONFIGURE that is applied sets provider and apiKey to exactly the
\* values of the event (an omitted apiKey clears the key) and leaves
\* maxRetries, baseBackoffMs, maxBackoffMs and rateLimitDefaultMs as they
\* were; CONFIGURE { provider: 'anthropic' } without apiKey in available,
\* invalidKey, rateLimited or serviceDown leads to keyMissing and starts no probe.
C29_ConfigureReplaces ==
    [][lastEvent'.event.type = "CONFIGURE" /\ state \in C29_Configurable
       => /\ context'.provider = lastEvent'.event.provider
          /\ context'.apiKey = lastEvent'.event.apiKey
          /\ context'.maxRetries = context.maxRetries
          /\ context'.baseBackoffMs = context.baseBackoffMs
          /\ context'.maxBackoffMs = context.maxBackoffMs
          /\ context'.rateLimitDefaultMs = context.rateLimitDefaultMs
          /\ lastEvent'.event = CONFIGURE("anthropic", None)
               /\ state \in {"available", "invalidKey", "rateLimited", "serviceDown"}
             => /\ state' = "keyMissing"
                /\ started' = 0
                /\ probes' = <<>>]_vars

\* CONFIGURE { provider: 'anthropic' } applied in available, where the context
\* held a key: the key is gone and nothing is probed
C29_Witness ==
    /\ lastEvent = [in |-> "available", event |-> CONFIGURE("anthropic", None)]
    /\ state = "keyMissing"
    /\ context.provider = "anthropic"
    /\ context.apiKey = None
    /\ probes = <<>>

\* Retry-After headers that are present and invalid: a negative number (its
\* Date.parse NaN, or a date of the past), an HTTP-date at or before now, text
\* that is neither a number nor a date
C28_InvalidHeaders ==
    {Some(Header(<<"-", "5">>, None)),
     Some(Header(<<"-", "5">>, Some(0 - 800000))),
     Some(Header(<<"W", "e", "d", ",", " ", "2", "1", " ", "O", "c", "t">>, Some(0))),
     Some(Header(<<"W", "e", "d", ",", " ", "2", "1", " ", "O", "c", "t">>, Some(0 - 5000))),
     Some(Header(<<"a", "b", "c">>, None))}

\* C28: createErrorFromResponse gives code rate-limited exactly when the
\* status is neither 401 nor 403 and the header parses to a defined delay, and
\* then retryAfterMs is that delay, >= 0; a service-down error carries no
\* retryAfterMs; a header that is present but invalid gives what an absent
\* header gives, service-down outside 401/403; and a rate-limited rejection of
\* checkAnthropicAvailability always carries retryAfterMs.
C28_HintCategory ==
    /\ call.fn = "createErrorFromResponse"
         => LET delay == parseRetryAfter(call.retryAfter)
                error == call.result
            IN  /\ error.code = Some("rate-limited")
                     <=> call.status \notin {401, 403} /\ delay # None
                /\ error.code = Some("rate-limited")
                     => error.retryAfterMs = delay /\ delay[1] >= 0
                /\ error.code = Some("service-down") => error.retryAfterMs = None
                /\ call.retryAfter \in C28_InvalidHeaders
                     => /\ error.retryAfterMs = None
                        /\ error.code = IF call.status \in {401, 403}
                                        THEN Some("invalid-key")
                                        ELSE Some("service-down")
    /\ call.fn = "checkAnthropicAvailability" /\ call.pc = "rejected"
         => (call.error[1].code = Some("rate-limited")
               => call.error[1].retryAfterMs # None)

\* a 529 with Retry-After: 0 is rate-limited with a delay of 0
C28_Witness ==
    /\ call.fn = "createErrorFromResponse"
    /\ call.status = 529
    /\ call.retryAfter = Some(Header(<<"0">>, None))
    /\ call.result.code = Some("rate-limited")
    /\ call.result.retryAfterMs = Some(0)

\* the errors checkAnthropicAvailability rejects with
C28_ProberErrors ==
    {checkAnthropicAvailability(f)[1] :
        f \in {g \in Fetches : checkAnthropicAvailability(g) # None}}

\* the machine driven by checkAnthropicAvailability: retryAfterMs is not null
\* on entry into rateLimited
C28_RateLimitedEntry ==
    [][/\ lastEvent'.event.type = "xstate.error.actor"
       /\ lastEvent'.event.error \in C28_ProberErrors
       /\ state' = "rateLimited"
       => context'.retryAfterMs # None]_vars

\* C30: at most one checker invocation is in flight, and the status is
\* checking while one is.
C30_SingleInvocation ==
    /\ Len(manager.checks) <= 1
    /\ manager.checks # <<>> => manager.state.status = "checking"

====
